---- MODULE Spec2Model ----
(***************************************************************************)
(* Dependency-UI: the in-memory store of services, dependencies and usage  *)
(* analytics (DependencyService), its localStorage-backed variant, and the *)
(* dashboard view that subscribes to it.                                   *)
(*                                                                         *)
(* Strings that the code searches in (names, descriptions, tags, the       *)
(* search box) are sequences of character codes, so that toLowerCase(),    *)
(* trim() and includes() are computed; strings that the code only compares *)
(* for equality (ids, enum values, teams, environments) are TLA+ strings.  *)
(* Record fields that no modelled operation reads (url, port, owner,       *)
(* version, metadata, the random health metrics, usageCount, weight, ...)  *)
(* are left out of the records.                                            *)
(***************************************************************************)
EXTENDS Integers, Sequences, FiniteSets, TLC

(***************************************************************************)
(* Bounds of the model.  generateMockApplications(10, 15) is explored at a *)
(* reduced scale: NumApps primary applications, DepsPerApp dependencies    *)
(* each.                                                                   *)
(***************************************************************************)
NumApps == 1
DepsPerApp == 1
MaxServices == 3
MaxDependencies == 1
MaxAnalytics == 1
MaxSubs == 2
MaxClock == 1
MaxSelected == 1

(***************************************************************************)
(* Character strings                                                       *)
(***************************************************************************)
toLowerCaseChar(c) == IF c >= 65 /\ c <= 90 THEN c + 32 ELSE c

toLowerCase(str) == [i \in 1..Len(str) |-> toLowerCaseChar(str[i])]

includes(str, sub) ==
  \E i \in 0..(Len(str) - Len(sub)) : SubSeq(str, i + 1, i + Len(sub)) = sub

IsSpace(c) == c = 32 \/ c = 9 \/ c = 10

RECURSIVE trimStart(_)
trimStart(str) ==
  IF str # <<>> /\ IsSpace(Head(str)) THEN trimStart(Tail(str)) ELSE str

RECURSIVE trimEnd(_)
trimEnd(str) ==
  IF str # <<>> /\ IsSpace(str[Len(str)])
  THEN trimEnd(SubSeq(str, 1, Len(str) - 1)) ELSE str

trim(str) == trimEnd(trimStart(str))

RECURSIVE Digits(_)
Digits(n) == IF n < 10 THEN <<48 + n>> ELSE Digits(n \div 10) \o <<48 + (n % 10)>>

\* Array.prototype.filter
filter(list, Keep(_)) == SelectSeq(list, Keep)

\* Array.prototype.findIndex, 1-based; 0 stands for -1
findIndex(list, Match(_)) ==
  IF \E i \in 1..Len(list) : Match(list[i])
  THEN CHOOSE i \in 1..Len(list) :
         Match(list[i]) /\ \A j \in 1..(i - 1) : ~Match(list[j])
  ELSE 0

\* Array.prototype.some over a list of strings
some(list, Test(_)) == \E i \in 1..Len(list) : Test(list[i])

Max(a, b) == IF a >= b THEN a ELSE b

(***************************************************************************)
(* Values: Date objects, and the ISO strings they become in JSON           *)
(***************************************************************************)
Date(t) == [kind |-> "Date", t |-> t]
IsoString(t) == [kind |-> "string", t |-> t]

\* Date.prototype.toJSON: a Date is written as its ISO string
DateToJSON(d) == IF d.kind = "Date" THEN IsoString(d.t) ELSE d

\* new Date(x).getTime() for x a Date or an ISO string
getTime(d) == d.t

Service(id, name, type, description, environment, team, lastSeen, status, tags, criticality) ==
  [id |-> id, name |-> name, type |-> type, description |-> description,
   environment |-> environment, team |-> team, lastSeen |-> lastSeen,
   status |-> status, tags |-> tags, criticality |-> criticality]

Dependency(id, src, tgt, type, lastUsed) ==
  [id |-> id, sourceServiceId |-> src, targetServiceId |-> tgt,
   dependencyType |-> type, lastUsed |-> lastUsed]

UsageAnalytics(serviceId, totalRequests, lastActivity) ==
  [serviceId |-> serviceId, totalRequests |-> totalRequests,
   lastActivity |-> lastActivity]

ServiceStatus == {"ACTIVE", "INACTIVE", "DEPRECATED", "UNKNOWN", "MAINTENANCE", "ERROR"}

CriticalityLevel == {"CRITICAL", "HIGH", "MEDIUM", "LOW"}

(***************************************************************************)
(* JSON.stringify of the three lists                                       *)
(***************************************************************************)
ServiceToJSON(s) == [s EXCEPT !.lastSeen = DateToJSON(@)]
DependencyToJSON(d) == [d EXCEPT !.lastUsed = DateToJSON(@)]
AnalyticsToJSON(a) == [a EXCEPT !.lastActivity = DateToJSON(@)]

ServicesToJSON(list) == [i \in 1..Len(list) |-> ServiceToJSON(list[i])]
DependenciesToJSON(list) == [i \in 1..Len(list) |-> DependencyToJSON(list[i])]
AnalyticsListToJSON(list) == [i \in 1..Len(list) |-> AnalyticsToJSON(list[i])]

(***************************************************************************)
(* A text handed to JSON.parse: a syntax error, the text "null", a scalar  *)
(* (a number, string or boolean), or an object whose services,             *)
(* dependencies and analytics members are absent, null or an array.        *)
(***************************************************************************)
Absent == [kind |-> "absent", v |-> <<>>]
Null == [kind |-> "null", v |-> <<>>]
Array(list) == [kind |-> "array", v |-> list]

Text(kind, s, d, a, exportDate) ==
  [kind |-> kind, services |-> s, dependencies |-> d, analytics |-> a,
   exportDate |-> exportDate]

SyntaxErrorText == Text("syntaxError", Absent, Absent, Absent, Absent)
NullText == Text("null", Absent, Absent, Absent, Absent)
ScalarText == Text("scalar", Absent, Absent, Absent, Absent)
ObjectText(s, d, a) == Text("object", s, d, a, Absent)

\* a test on the length instead, which an empty array fails
Truthy_NonEmpty(member) == member.kind = "array" /\ member.v # <<>>

\* JavaScript truthiness of a member: an array, even an empty one, is truthy
Truthy(member) == member.kind = "array"

(***************************************************************************)
(* generateMockApplications(numApps, depsPerApp).  The targets that        *)
(* Math.random() picks for application i are targets[i], a list of         *)
(* depsPerApp distinct pool ids in the order they were chosen.             *)
(***************************************************************************)
str_Application == <<65,112,112,108,105,99,97,116,105,111,110,32>>   \* "Application "
str_Service == <<83,101,114,118,105,99,101,32>>                      \* "Service "
str_GeneratedApplication ==                                          \* "Generated application "
  <<71,101,110,101,114,97,116,101,100,32,97,112,112,108,105,99,97,116,105,111,110,32>>
str_SupportService ==                                                \* "Support service "
  <<83,117,112,112,111,114,116,32,115,101,114,118,105,99,101,32>>
str_generated == <<103,101,110,101,114,97,116,101,100>>              \* "generated"
str_app == <<97,112,112>>                                            \* "app"
str_support == <<115,117,112,112,111,114,116>>                       \* "support"

depTypes == <<"API_CALL", "GRPC_CALL", "REST_API", "WEBSOCKET", "DIRECT_DEPENDENCY">>

\* Math.max(depsPerApp + 5, 25) at the reduced scale: a pool of at least two
\* services, never smaller than depsPerApp
extraPoolSize(depsPerApp) == Max(depsPerApp, 2)

MockApp(i, now) ==
  Service("app-" \o ToString(i), str_Application \o Digits(i), "MICROSERVICE",
          str_GeneratedApplication \o Digits(i), "production",
          "Team " \o ToString((i % 5) + 1), Date(now), "ACTIVE",
          <<str_generated, str_app>>,
          <<"CRITICAL", "HIGH", "MEDIUM", "LOW">>[(i % 4) + 1])

MockPoolService(j, now) ==
  Service("svc-" \o ToString(j), str_Service \o Digits(j), "MICROSERVICE",
          str_SupportService \o Digits(j), "production", "Shared Services",
          Date(now), "ACTIVE", <<str_generated, str_support>>,
          <<"HIGH", "MEDIUM", "LOW">>[(j % 3) + 1])

MockServices(numApps, depsPerApp, now) ==
  [i \in 1..numApps |-> MockApp(i, now)]
    \o [j \in 1..extraPoolSize(depsPerApp) |-> MockPoolService(j, now)]

poolIds(depsPerApp) == {"svc-" \o ToString(j) : j \in 1..extraPoolSize(depsPerApp)}

\* the lists of depsPerApp distinct pool ids
TargetChoices(depsPerApp) ==
  {c \in [1..depsPerApp -> poolIds(depsPerApp)] :
     \A a, b \in 1..depsPerApp : a # b => c[a] # c[b]}

MockDependency(i, idx, targetId, now) ==
  Dependency("dep-app-" \o ToString(i) \o "-" \o ToString(idx),
             "app-" \o ToString(i), targetId,
             depTypes[(idx % Len(depTypes)) + 1], Date(now))

\* dependency number k (1-based) of the list: application (k-1) div depsPerApp + 1,
\* idx (k-1) mod depsPerApp
MockDependencies(numApps, depsPerApp, targets, now) ==
  [k \in 1..(numApps * depsPerApp) |->
     LET i == ((k - 1) \div depsPerApp) + 1
         idx == (k - 1) % depsPerApp
     IN MockDependency(i, idx, targets[i][idx + 1], now)]

(***************************************************************************)
(* DependencyService: the pure parts                                       *)
(***************************************************************************)
\* a search that looks at the name only
searchServices_NameOnly(list, query) ==
  filter(list, LAMBDA service :
    includes(toLowerCase(service.name), toLowerCase(query)))

searchServices(list, query) ==
  LET lowerQuery == toLowerCase(query)
  IN filter(list, LAMBDA service :
       \/ includes(toLowerCase(service.name), lowerQuery)
       \/ includes(toLowerCase(service.description), lowerQuery)
       \/ some(service.tags, LAMBDA tag : includes(toLowerCase(tag), lowerQuery)))

\* a slip that filters on the wrong field, as getServicesByType does
getServicesByStatus_ByType(list, status) ==
  filter(list, LAMBDA service : service.type = status)

getServicesByStatus(list, status) ==
  filter(list, LAMBDA service : service.status = status)

\* the array of updateUsageAnalytics after its replace-or-push
UpsertAnalytics(list, a) ==
  LET index == findIndex(list, LAMBDA x : x.serviceId = a.serviceId)
  IN IF index # 0 THEN [list EXCEPT ![index] = a] ELSE Append(list, a)

exportData(s, d, a, now) ==
  Text("object", Array(ServicesToJSON(s)), Array(DependenciesToJSON(d)),
       Array(AnalyticsListToJSON(a)), [kind |-> "string", v |-> <<now>>])

\* JSON.parse(data) throws a SyntaxError
ParseThrows(text) == text.kind = "syntaxError"

\* importData's try block throws: JSON.parse does, or parsed is null and
\* parsed.services is a TypeError
ImportThrows(text) == ParseThrows(text) \/ text.kind = "null"

(***************************************************************************)
(* DashboardComponent: the pure parts, on the component's fields d         *)
(***************************************************************************)
ThirtyDays == 30

getServiceTypeLabel(type) ==
  CASE type = "JAVA_APP" -> "Java App"
    [] type = "DOTNET_APP" -> "Dotnet App"
    [] type = "ANGULAR_APP" -> "Angular App"
    [] type = "REACT_APP" -> "React App"
    [] type = "VUE_APP" -> "Vue App"
    [] type = "NODE_APP" -> "Node App"
    [] type = "PYTHON_APP" -> "Python App"
    [] type = "DATABASE" -> "Database"
    [] type = "API" -> "Api"
    [] type = "QUEUE" -> "Queue"
    [] type = "MESSAGE_BROKER" -> "Message Broker"
    [] type = "CACHE" -> "Cache"
    [] type = "LOAD_BALANCER" -> "Load Balancer"
    [] type = "EXTERNAL_SERVICE" -> "External Service"
    [] type = "MICROSERVICE" -> "Microservice"
    [] type = "MONOLITH" -> "Monolith"

getStatusLabel(status) ==
  CASE status = "ACTIVE" -> "Active"
    [] status = "INACTIVE" -> "Inactive"
    [] status = "DEPRECATED" -> "Deprecated"
    [] status = "UNKNOWN" -> "Unknown"
    [] status = "MAINTENANCE" -> "Maintenance"
    [] status = "ERROR" -> "Error"

getCriticalityLabel(level) ==
  CASE level = "CRITICAL" -> "Critical"
    [] level = "HIGH" -> "High"
    [] level = "MEDIUM" -> "Medium"
    [] level = "LOW" -> "Low"

\* the component's fields as its field initialisers leave them at time now
NewDashboard(now) ==
  [life |-> "none", subs |-> 0,
   services |-> <<>>, dependencies |-> <<>>, filteredServices |-> <<>>,
   searchQuery |-> <<>>, selectedServiceType |-> "", selectedStatus |-> "",
   selectedServiceTypes |-> <<>>, selectedStatuses |-> <<>>,
   selectedCriticalityLevels |-> <<>>, selectedTeams |-> <<>>,
   selectedEnvironments |-> <<>>, activeFilters |-> <<>>,
   totalServices |-> 0, activeServices |-> 0, totalDependencies |-> 0,
   dateRange |-> [start |-> now - ThirtyDays, end |-> now]]

updateStatistics(d) ==
  [d EXCEPT !.totalServices = Len(d.services),
            !.activeServices =
               Len(filter(d.services, LAMBDA s : s.status = "ACTIVE")),
            !.totalDependencies = Len(d.dependencies)]

ActiveFilter(label, value, type) == [label |-> label, value |-> value, type |-> type]

updateActiveFilters(d) ==
  [d EXCEPT !.activeFilters =
     (IF d.searchQuery # <<>>
      THEN <<ActiveFilter("Search", d.searchQuery, "search")>> ELSE <<>>)
     \o [i \in 1..Len(d.selectedServiceTypes) |->
           ActiveFilter("Type", getServiceTypeLabel(d.selectedServiceTypes[i]),
                        "serviceType")]
     \o [i \in 1..Len(d.selectedStatuses) |->
           ActiveFilter("Status", getStatusLabel(d.selectedStatuses[i]), "status")]
     \o [i \in 1..Len(d.selectedCriticalityLevels) |->
           ActiveFilter("Criticality",
                        getCriticalityLabel(d.selectedCriticalityLevels[i]),
                        "criticality")]
     \o [i \in 1..Len(d.selectedTeams) |->
           ActiveFilter("Team", d.selectedTeams[i], "team")]
     \o [i \in 1..Len(d.selectedEnvironments) |->
           ActiveFilter("Environment", d.selectedEnvironments[i], "environment")]]

\* Array.prototype.includes on a list of strings
listIncludes(list, x) == \E i \in 1..Len(list) : list[i] = x

InDateRange(d, service) ==
  /\ getTime(service.lastSeen) >= d.dateRange.start
  /\ getTime(service.lastSeen) <= d.dateRange.end

\* applyFilters(); stored is servicesSubject.value, which searchServices reads
applyFilters(d, stored) ==
  LET f0 == d.services
      f1 == IF trim(d.searchQuery) # <<>>
            THEN searchServices(stored, d.searchQuery) ELSE f0
      f2 == IF d.selectedServiceType # ""
            THEN filter(f1, LAMBDA s : s.type = d.selectedServiceType) ELSE f1
      f3 == IF d.selectedStatus # ""
            THEN filter(f2, LAMBDA s : s.status = d.selectedStatus) ELSE f2
      f4 == IF Len(d.selectedServiceTypes) > 0
            THEN filter(f3, LAMBDA s : listIncludes(d.selectedServiceTypes, s.type))
            ELSE f3
      f5 == IF Len(d.selectedStatuses) > 0
            THEN filter(f4, LAMBDA s : listIncludes(d.selectedStatuses, s.status))
            ELSE f4
      f6 == IF Len(d.selectedCriticalityLevels) > 0
            THEN filter(f5, LAMBDA s :
                   listIncludes(d.selectedCriticalityLevels, s.criticality))
            ELSE f5
      f7 == IF Len(d.selectedTeams) > 0
            THEN filter(f6, LAMBDA s :
                   s.team # "" /\ listIncludes(d.selectedTeams, s.team))
            ELSE f6
      f8 == IF Len(d.selectedEnvironments) > 0
            THEN filter(f7, LAMBDA s :
                   listIncludes(d.selectedEnvironments, s.environment))
            ELSE f7
      f9 == filter(f8, LAMBDA s : InDateRange(d, s))
  IN updateActiveFilters([d EXCEPT !.filteredServices = f9])

\* the services$ subscriber of loadData()
DashboardOnServices(d, value) ==
  applyFilters(
    updateStatistics([d EXCEPT !.services = value, !.filteredServices = value]),
    value)

\* the dependencies$ subscriber of loadData()
DashboardOnDependencies(d, value) ==
  updateStatistics([d EXCEPT !.dependencies = value])

(***************************************************************************)
(* DependencyGraphComponent: the pure parts.  this.cy is the Cytoscape     *)
(* instance: its nodes and edges with the data fields the component reads  *)
(* back and their display style.  Cytoscape adds the nodes of a batch      *)
(* before its edges and leaves out an element whose id is already taken    *)
(* and an edge whose source or target is not a node of the graph.          *)
(***************************************************************************)
\* the characters of a ServiceType value, for node.data('type').toLowerCase()
ServiceTypeChars(type) ==
  CASE type = "JAVA_APP" ->
         <<74,65,86,65,95,65,80,80>>
    [] type = "DOTNET_APP" ->
         <<68,79,84,78,69,84,95,65,80,80>>
    [] type = "ANGULAR_APP" ->
         <<65,78,71,85,76,65,82,95,65,80,80>>
    [] type = "REACT_APP" ->
         <<82,69,65,67,84,95,65,80,80>>
    [] type = "VUE_APP" ->
         <<86,85,69,95,65,80,80>>
    [] type = "NODE_APP" ->
         <<78,79,68,69,95,65,80,80>>
    [] type = "PYTHON_APP" ->
         <<80,89,84,72,79,78,95,65,80,80>>
    [] type = "DATABASE" ->
         <<68,65,84,65,66,65,83,69>>
    [] type = "API" ->
         <<65,80,73>>
    [] type = "QUEUE" ->
         <<81,85,69,85,69>>
    [] type = "MESSAGE_BROKER" ->
         <<77,69,83,83,65,71,69,95,66,82,79,75,69,82>>
    [] type = "CACHE" ->
         <<67,65,67,72,69>>
    [] type = "LOAD_BALANCER" ->
         <<76,79,65,68,95,66,65,76,65,78,67,69,82>>
    [] type = "EXTERNAL_SERVICE" ->
         <<69,88,84,69,82,78,65,76,95,83,69,82,86,73,67,69>>
    [] type = "MICROSERVICE" ->
         <<77,73,67,82,79,83,69,82,86,73,67,69>>
    [] type = "MONOLITH" ->
         <<77,79,78,79,76,73,84,72>>
    [] OTHER -> <<>>

NoCy == [ready |-> FALSE, nodes |-> <<>>, edges |-> <<>>]

\* the fields of a new DependencyGraphComponent; calls lists the elements that
\* each updateGraph() of the last store operation handed to cy.add()
NewGraph ==
  [life |-> "none", subs |-> 0, services |-> <<>>, dependencies |-> <<>>,
   cy |-> NoCy, filterByType |-> <<>>, filterByStatus |-> <<>>,
   filterByCriticality |-> <<>>, searchQuery |-> <<>>,
   totalNodes |-> 0, totalEdges |-> 0, last |-> "none", calls |-> <<>>]

GraphNode(service) ==
  [id |-> service.id, name |-> service.name, type |-> service.type,
   status |-> service.status,
   criticality |-> IF service.criticality = "" THEN "MEDIUM"
                   ELSE service.criticality]

GraphEdge(dep) ==
  [id |-> dep.id, source |-> dep.sourceServiceId, target |-> dep.targetServiceId,
   type |-> dep.dependencyType]

prepareGraphData(g) ==
  [nodes |-> [i \in 1..Len(g.services) |-> GraphNode(g.services[i])],
   edges |-> [i \in 1..Len(g.dependencies) |-> GraphEdge(g.dependencies[i])]]

\* the elements of a batch that take an id first
RECURSIVE FirstOfEachId(_)
FirstOfEachId(list) ==
  IF list = <<>> THEN <<>>
  ELSE LET init == FirstOfEachId(SubSeq(list, 1, Len(list) - 1))
           last == list[Len(list)]
       IN IF \E k \in 1..Len(init) : init[k].id = last.id
          THEN init ELSE Append(init, last)

Shown(data) == [data |-> data, display |-> "element"]

\* cy.elements().remove(); cy.add(elements): the graph that results
cyAdd(elements) ==
  LET nodes == FirstOfEachId(elements.nodes)
      HasNode(id) == \E k \in 1..Len(nodes) : nodes[k].id = id
      edges == FirstOfEachId(
                 SelectSeq(elements.edges,
                           LAMBDA e : HasNode(e.source) /\ HasNode(e.target)))
  IN [ready |-> TRUE,
      nodes |-> [i \in 1..Len(nodes) |-> Shown(nodes[i])],
      edges |-> [i \in 1..Len(edges) |-> Shown(edges[i])]]

\* updateStatistics() of the graph component
Graph_updateStatistics(g) ==
  [g EXCEPT !.totalNodes = Len(g.cy.nodes), !.totalEdges = Len(g.cy.edges)]

\* updateGraph(): nothing before initializeGraph() has set this.cy
updateGraph(g) ==
  IF ~g.cy.ready THEN g
  ELSE LET elements == prepareGraphData(g)
       IN Graph_updateStatistics(
            [g EXCEPT !.cy = cyAdd(elements), !.last = "updateGraph",
                      !.calls = Append(@, elements)])

\* initializeGraph(): cytoscape({elements: this.prepareGraphData(), ...})
initializeGraph(g) ==
  Graph_updateStatistics(
    [g EXCEPT !.cy = cyAdd(prepareGraphData(g)), !.last = "initializeGraph"])

\* the services$ and dependencies$ subscribers of the graph's loadData()
GraphOnServices(g, value) == updateGraph([g EXCEPT !.services = value])
GraphOnDependencies(g, value) == updateGraph([g EXCEPT !.dependencies = value])

\* one pass of applyFilters(): the nodes that fail the test get display none
HideUnless(cy, Passes(_)) ==
  [cy EXCEPT !.nodes =
     [i \in 1..Len(cy.nodes) |->
        IF Passes(cy.nodes[i].data) THEN cy.nodes[i]
        ELSE [cy.nodes[i] EXCEPT !.display = "none"]]]

ShowAll(cy) ==
  [cy EXCEPT !.nodes = [i \in 1..Len(cy.nodes) |-> Shown(cy.nodes[i].data)],
             !.edges = [i \in 1..Len(cy.edges) |-> Shown(cy.edges[i].data)]]

\* a search that looks at the node's name only
SearchPasses_NameOnly(node, searchQuery) ==
  includes(toLowerCase(node.name), toLowerCase(searchQuery))

\* the test of applyFilters()'s search pass
SearchPasses(node, searchQuery) ==
  LET query == toLowerCase(searchQuery)
  IN \/ includes(toLowerCase(node.name), query)
     \/ includes(toLowerCase(ServiceTypeChars(node.type)), query)

Graph_applyFilters(g) ==
  IF ~g.cy.ready THEN g
  ELSE LET c0 == ShowAll(g.cy)
           c1 == IF Len(g.filterByType) > 0
                 THEN HideUnless(c0, LAMBDA n : listIncludes(g.filterByType, n.type))
                 ELSE c0
           c2 == IF Len(g.filterByStatus) > 0
                 THEN HideUnless(c1, LAMBDA n : listIncludes(g.filterByStatus, n.status))
                 ELSE c1
           c3 == IF Len(g.filterByCriticality) > 0
                 THEN HideUnless(c2, LAMBDA n :
                        listIncludes(g.filterByCriticality, n.criticality))
                 ELSE c2
           c4 == IF trim(g.searchQuery) # <<>>
                 THEN HideUnless(c3, LAMBDA n : SearchPasses(n, g.searchQuery))
                 ELSE c3
       IN [g EXCEPT !.cy = c4, !.last = "applyFilters"]

\* a clear that forgets to show the elements again
Graph_clearFilters_FieldsOnly(g) ==
  [g EXCEPT !.filterByType = <<>>, !.filterByStatus = <<>>,
            !.filterByCriticality = <<>>, !.searchQuery = <<>>,
            !.last = "clearFilters"]

Graph_clearFilters(g) ==
  [g EXCEPT !.filterByType = <<>>, !.filterByStatus = <<>>,
            !.filterByCriticality = <<>>, !.searchQuery = <<>>,
            !.cy = ShowAll(g.cy), !.last = "clearFilters"]

\* loadData() of the graph: the two subscribers, and the BehaviorSubjects hand
\* them the current lists at once
Graph_loadData(g, s, deps) ==
  GraphOnDependencies(GraphOnServices([g EXCEPT !.subs = @ + 1], s), deps)

\* ngOnDestroy(): the subscriptions end and cy.destroy() empties the graph
Graph_ngOnDestroy(g) ==
  [g EXCEPT !.life = "destroyed", !.subs = 0, !.last = "ngOnDestroy",
            !.cy = [ready |-> TRUE, nodes |-> <<>>, edges |-> <<>>],
            !.calls = <<>>]

\* one next(value) as the graph's live subscribers see it
GraphOnEmission(g, e) ==
  IF g.subs = 0 THEN g
  ELSE CASE e.subject = "services" -> GraphOnServices(g, e.value)
         [] e.subject = "dependencies" -> GraphOnDependencies(g, e.value)
         [] OTHER -> g

RECURSIVE GraphDeliver(_, _)
GraphDeliver(g, events) ==
  IF events = <<>> THEN g
  ELSE GraphDeliver(GraphOnEmission(g, Head(events)), Tail(events))

(***************************************************************************)
(* ServiceFormComponent: the form group of createForm() and its validators *)
(***************************************************************************)
FormControls ==
  {"name", "type", "description", "url", "port", "environment", "team",
   "status", "tags", "metadata"}

\* the initial values of createForm(); what is typed into the name, url, port
\* and tags inputs is a sequence of characters
createForm ==
  [name |-> <<>>, type |-> "", description |-> <<>>, url |-> <<>>, port |-> <<>>,
   environment |-> "production", team |-> "", status |-> "ACTIVE",
   tags |-> <<>>, metadata |-> <<>>]

\* no form on the page; route is the last target of router.navigate() and last
\* the last handler that ran
NoForm ==
  [life |-> "none", isEditMode |-> FALSE, serviceId |-> "", value |-> createForm,
   touched |-> {}, route |-> "", last |-> "none"]

\* Validators.required on a text input and on a select: an empty string has
\* the error
required(text) == Len(text) > 0
requiredChoice(choice) == choice # ""

\* a length test that lets a name of one character through
minLength_Off(v, n) == TRUE

\* Validators.minLength(n): an empty value is not tested
minLength(v, n) == Len(v) = 0 \/ Len(v) >= n

str_http == <<104,116,116,112,58,47,47>>        \* "http://"
str_https == <<104,116,116,112,115,58,47,47>>   \* "https://"

startsWith(str, prefix) ==
  Len(str) >= Len(prefix) /\ SubSeq(str, 1, Len(prefix)) = prefix

\* Validators.pattern(/^https?:\/\/.+/): an empty value is not tested
urlPattern(v) ==
  \/ Len(v) = 0
  \/ startsWith(v, str_http) /\ Len(v) > Len(str_http)
  \/ startsWith(v, str_https) /\ Len(v) > Len(str_https)

NaN == [nan |-> TRUE, n |-> 0]
Number(n) == [nan |-> FALSE, n |-> n]

IsDigit(c) == c \in 48..57

RECURSIVE DigitsValue(_)
DigitsValue(str) ==
  IF str = <<>> THEN 0
  ELSE 10 * DigitsValue(SubSeq(str, 1, Len(str) - 1)) + (str[Len(str)] - 48)

\* parseFloat of an optional minus sign and digits; NaN for any other text
parseFloat(str) ==
  LET digits == IF str # <<>> /\ str[1] = 45 THEN Tail(str) ELSE str
  IN IF digits = <<>> \/ \E i \in 1..Len(digits) : ~IsDigit(digits[i]) THEN NaN
     ELSE Number(IF digits = str THEN DigitsValue(digits) ELSE 0 - DigitsValue(digits))

\* Validators.min(n) and Validators.max(n): empty and NaN are not tested
min(v, n) == Len(v) = 0 \/ parseFloat(v).nan \/ parseFloat(v).n >= n
max(v, n) == Len(v) = 0 \/ parseFloat(v).nan \/ parseFloat(v).n <= n

\* serviceForm.valid
valid(value) ==
  /\ required(value.name) /\ minLength(value.name, 2)
  /\ requiredChoice(value.type)
  /\ urlPattern(value.url)
  /\ min(value.port, 1) /\ max(value.port, 65535)
  /\ requiredChoice(value.environment)
  /\ requiredChoice(value.status)

\* tags.join(', ')
RECURSIVE join(_)
join(tags) ==
  IF tags = <<>> THEN <<>>
  ELSE IF Len(tags) = 1 THEN tags[1]
  ELSE tags[1] \o <<44, 32>> \o join(Tail(tags))

\* str.split(',')
RECURSIVE split(_)
split(str) ==
  IF \E i \in 1..Len(str) : str[i] = 44
  THEN LET i == CHOOSE k \in 1..Len(str) :
                  str[k] = 44 /\ \A j \in 1..(k - 1) : str[j] # 44
       IN <<SubSeq(str, 1, i - 1)>> \o split(SubSeq(str, i + 1, Len(str)))
  ELSE <<str>>

\* formValue.tags ? formValue.tags.split(',').map(trim).filter(tag => tag) : []
formTags(text) ==
  IF text = <<>> THEN <<>>
  ELSE SelectSeq([i \in 1..Len(split(text)) |-> trim(split(text)[i])],
                 LAMBDA tag : tag # <<>>)

\* the service that onSubmit() builds from the form value
SubmittedService(f, id, now) ==
  Service(id, f.value.name, f.value.type, f.value.description,
          f.value.environment, f.value.team, Date(now), f.value.status,
          formTags(f.value.tags), "")

\* loadService(): patchValue({...service, tags: service.tags.join(', ')})
patchValue(value, service) ==
  [value EXCEPT !.name = service.name, !.type = service.type,
                !.description = service.description,
                !.environment = service.environment, !.team = service.team,
                !.status = service.status, !.tags = join(service.tags)]

markFormGroupTouched(f) == [f EXCEPT !.touched = FormControls]

(***************************************************************************)
(* State                                                                   *)
(***************************************************************************)
VARIABLES
  services,       \* servicesSubject.value
  dependencies,   \* dependenciesSubject.value
  analytics,      \* analyticsSubject.value
  storage,        \* the three localStorage entries of the localStorage variant
  clock,          \* Date.now(), in days
  dash,           \* the DashboardComponent instance
  reader,         \* the FileReader started by the dashboard's importData()
  alert,          \* the last window.alert of the dashboard's import
  op,             \* the last operation that ran,
  arg,            \*   its argument,
  ret,            \*   what it returned,
  pre,            \*   the three lists as they were when it was called,
  emitted,        \*   the subjects it called next() on, in order,
  dashRuns,       \*   and how many dashboard subscriber callbacks it ran
  graph,          \* the DependencyGraphComponent instance
  form            \* the ServiceFormComponent instance

vars == <<services, dependencies, analytics, storage, clock, dash, reader, alert,
          op, arg, ret, pre, emitted, dashRuns, graph, form>>

Stored == [services |-> services, dependencies |-> dependencies,
           analytics |-> analytics]

Emission(subject, value) == [subject |-> subject, value |-> value]

\* the next(value) calls behind a list of subject names, given the lists they carried
Emissions(subjects, s, d, a) ==
  [i \in 1..Len(subjects) |->
     Emission(subjects[i],
              CASE subjects[i] = "services" -> s
                [] subjects[i] = "dependencies" -> d
                [] OTHER -> a)]

\* one next(value) as the dashboard's live subscribers see it
DashboardOnEmission(d, e) ==
  IF d.subs = 0 THEN d
  ELSE CASE e.subject = "services" -> DashboardOnServices(d, e.value)
         [] e.subject = "dependencies" -> DashboardOnDependencies(d, e.value)
         [] OTHER -> d

RECURSIVE DashboardDeliver(_, _)
DashboardDeliver(d, events) ==
  IF events = <<>> THEN d
  ELSE DashboardDeliver(DashboardOnEmission(d, Head(events)), Tail(events))

\* the callbacks of the dashboard that the emissions run: one per live
\* subscription to services$ or dependencies$
DashboardCallbacks(d, events) ==
  d.subs * Len(SelectSeq(events, LAMBDA e : e.subject # "analytics"))

\* bookkeeping of an operation of the store: what was called, what it returned
\* and the subjects it emitted on
Returns(name, a, r, subjects) ==
  /\ op' = name
  /\ arg' = a
  /\ ret' = r
  /\ pre' = Stored
  /\ emitted' = subjects

\* the synchronous delivery of the operation's emissions to the subscribers
Notify ==
  LET events == Emissions(emitted', services', dependencies', analytics')
  IN /\ dash' = DashboardDeliver(dash, events)
     /\ dashRuns' = DashboardCallbacks(dash, events)
     /\ graph' = GraphDeliver([graph EXCEPT !.calls = <<>>], events)

(***************************************************************************)
(* DependencyService (src/app/services/dependency.service.ts): operations  *)
(***************************************************************************)
addServiceOp(service) ==
  /\ Len(services) < MaxServices
  /\ services' = Append(services, service)
  /\ UNCHANGED <<dependencies, analytics>>
  /\ Returns("addService", service, "void", <<"services">>)

\* a slip that takes the last record with the id instead of the first
ServiceIndex_Last(list, service) ==
  IF \E i \in 1..Len(list) : list[i].id = service.id
  THEN CHOOSE i \in 1..Len(list) :
         list[i].id = service.id /\ \A j \in (i + 1)..Len(list) : list[j].id # service.id
  ELSE 0

\* currentServices.findIndex(s => s.id === service.id)
ServiceIndex(list, service) == findIndex(list, LAMBDA s : s.id = service.id)

updateServiceOp(service, onChange) ==
  LET index == ServiceIndex(services, service)
  IN IF index # 0
     THEN /\ services' = [services EXCEPT ![index] = service]
          /\ UNCHANGED <<dependencies, analytics>>
          /\ Returns("updateService", service, "void", <<"services">>)
          /\ onChange
     ELSE /\ UNCHANGED <<services, dependencies, analytics, storage>>
          /\ Returns("updateService", service, "void", <<>>)

\* a cascade that forgets the dependencies that point at the service
KeepsDependency_SourceOnly(d, serviceId) == d.sourceServiceId # serviceId

\* the filter predicate of deleteService's cascade
KeepsDependency(d, serviceId) ==
  d.sourceServiceId # serviceId /\ d.targetServiceId # serviceId

deleteServiceOp(serviceId) ==
  /\ services' = filter(services, LAMBDA s : s.id # serviceId)
  /\ dependencies' = filter(dependencies, LAMBDA d : KeepsDependency(d, serviceId))
  /\ UNCHANGED analytics
  /\ Returns("deleteService", serviceId, "void", <<"services", "dependencies">>)

addDependencyOp(dependency) ==
  /\ Len(dependencies) < MaxDependencies
  /\ dependencies' = Append(dependencies, dependency)
  /\ UNCHANGED <<services, analytics>>
  /\ Returns("addDependency", dependency, "void", <<"dependencies">>)

updateDependencyOp(dependency, onChange) ==
  LET index == findIndex(dependencies, LAMBDA d : d.id = dependency.id)
  IN IF index # 0
     THEN /\ dependencies' = [dependencies EXCEPT ![index] = dependency]
          /\ UNCHANGED <<services, analytics>>
          /\ Returns("updateDependency", dependency, "void", <<"dependencies">>)
          /\ onChange
     ELSE /\ UNCHANGED <<services, dependencies, analytics, storage>>
          /\ Returns("updateDependency", dependency, "void", <<>>)

deleteDependencyOp(dependencyId) ==
  /\ dependencies' = filter(dependencies, LAMBDA d : d.id # dependencyId)
  /\ UNCHANGED <<services, analytics>>
  /\ Returns("deleteDependency", dependencyId, "void", <<"dependencies">>)

updateUsageAnalyticsOp(a) ==
  /\ Len(UpsertAnalytics(analytics, a)) <= MaxAnalytics
  /\ analytics' = UpsertAnalytics(analytics, a)
  /\ UNCHANGED <<services, dependencies>>
  /\ Returns("updateUsageAnalytics", a, "void", <<"analytics">>)

\* the subjects that importData's try block calls next() on, in order
ImportSubjects(text) ==
  (IF Truthy(text.services) THEN <<"services">> ELSE <<>>)
  \o (IF Truthy(text.dependencies) THEN <<"dependencies">> ELSE <<>>)
  \o (IF Truthy(text.analytics) THEN <<"analytics">> ELSE <<>>)

\* a slip that hands the analytics member to the dependencies subject
Imported_Crossed(text) ==
  IF ImportThrows(text) THEN Stored
  ELSE [services |-> IF Truthy(text.services) THEN text.services.v ELSE services,
        dependencies |-> IF Truthy(text.analytics)
                         THEN text.analytics.v ELSE dependencies,
        analytics |-> IF Truthy(text.analytics)
                      THEN text.analytics.v ELSE analytics]

\* the three lists after importData(text)
Imported(text) ==
  IF ImportThrows(text) THEN Stored
  ELSE [services |-> IF Truthy(text.services) THEN text.services.v ELSE services,
        dependencies |-> IF Truthy(text.dependencies)
                         THEN text.dependencies.v ELSE dependencies,
        analytics |-> IF Truthy(text.analytics)
                      THEN text.analytics.v ELSE analytics]

importDataOp(text, onSuccess) ==
  /\ services' = Imported(text).services
  /\ dependencies' = Imported(text).dependencies
  /\ analytics' = Imported(text).analytics
  /\ IF ImportThrows(text)
     THEN /\ Returns("importData", text, FALSE, <<>>)
          /\ UNCHANGED storage
     ELSE /\ Returns("importData", text, TRUE, ImportSubjects(text))
          /\ onSuccess

\* the in-memory variant writes nothing to localStorage
NoStorage == UNCHANGED storage

\* the rest of the page is not involved
Idle == UNCHANGED <<clock, reader, alert, form>>

AddService(service) == addServiceOp(service) /\ NoStorage /\ Notify /\ Idle

UpdateService(service) == updateServiceOp(service, NoStorage) /\ Notify /\ Idle

DeleteService(serviceId) == deleteServiceOp(serviceId) /\ NoStorage /\ Notify /\ Idle

AddDependency(dependency) ==
  addDependencyOp(dependency) /\ NoStorage /\ Notify /\ Idle

UpdateDependency(dependency) ==
  updateDependencyOp(dependency, NoStorage) /\ Notify /\ Idle

DeleteDependency(dependencyId) ==
  deleteDependencyOp(dependencyId) /\ NoStorage /\ Notify /\ Idle

UpdateUsageAnalytics(a) == updateUsageAnalyticsOp(a) /\ NoStorage /\ Notify /\ Idle

ImportData(text) == importDataOp(text, NoStorage) /\ Notify /\ Idle

\* importData(exportData())
ImportExported ==
  /\ importDataOp(exportData(services, dependencies, analytics, clock), NoStorage)
  /\ Notify
  /\ Idle

GetServicesByStatus(status) ==
  /\ UNCHANGED <<services, dependencies, analytics, storage>>
  /\ Returns("getServicesByStatus", status, getServicesByStatus(services, status),
             <<>>)
  /\ Notify
  /\ Idle

(***************************************************************************)
(* Inputs of the operations                                                *)
(***************************************************************************)
str_ApiGateway == <<65,112,105,32,71,97,116,101,119,97,121>>   \* "Api Gateway"
str_BillingDB == <<66,105,108,108,105,110,103,32,68,66>>       \* "Billing DB"
str_api == <<97,112,105>>                                       \* "api"
str_legacy == <<108,101,103,97,99,121>>                         \* "legacy"

\* a service as ServiceFormComponent.onSubmit builds it (no criticality: "")
FormService(id, name, type, team, status, tags, now) ==
  Service(id, name, type, <<>>, "production", team, Date(now), status, tags, "")

\* carries the id of the first mock application
ServiceA(now) ==
  FormService("app-1", str_ApiGateway, "API", "", "INACTIVE", <<str_api>>, now)

ServiceB(now) ==
  FormService("app-1", str_BillingDB, "DATABASE", "Team 2", "ERROR", <<>>, now)

ServiceGhost(now) ==
  FormService("ghost", str_legacy, "MONOLITH", "", "DEPRECATED", <<>>, now)

NewServices(now) == {ServiceA(now)}
UpdatedServices(now) == {ServiceB(now), ServiceGhost(now)}
ServiceIds == {"app-1", "svc-1", "ghost"}

\* carries the id of the first mock dependency, and a target that is no service
DependencyA(now) == Dependency("dep-app-1-0", "svc-1", "ghost", "GRPC_CALL", Date(now))
DependencyB(now) == Dependency("dep-app-1-0", "svc-2", "svc-1", "REST_API", Date(now))
DependencyGhost(now) == Dependency("dep-ghost", "svc-1", "svc-2", "SOAP", Date(now))

NewDependencies(now) == {DependencyA(now)}
UpdatedDependencies(now) == {DependencyB(now), DependencyGhost(now)}
DependencyIds == {"dep-app-1-0", "dep-ghost"}

AnalyticsInputs(now) ==
  {UsageAnalytics("app-1", 10, Date(now)), UsageAnalytics("app-1", 20, Date(now))}

\* what a file holds: lists as JSON.parse returns them, with dates as strings
FileServices == ServicesToJSON(<<ServiceB(0), MockPoolService(1, 0)>>)
FileDependencies == DependenciesToJSON(<<DependencyB(0)>>)
FileAnalytics == AnalyticsListToJSON(<<UsageAnalytics("svc-1", 5, Date(0))>>)

ImportTexts ==
  {SyntaxErrorText, NullText, ScalarText,
   ObjectText(Absent, Absent, Absent),
   ObjectText(Null, Array(FileDependencies), Absent),
   ObjectText(Array(<<>>), Array(<<>>), Array(<<>>)),
   ObjectText(Array(FileServices), Array(FileDependencies), Array(FileAnalytics))}

(***************************************************************************)
(* The in-memory store on its own: every public operation, no subscriber   *)
(***************************************************************************)
EmptyStorage == [services |-> Absent, dependencies |-> Absent, analytics |-> Absent]

\* new DependencyService(): loadInitialData() -> generateMockApplications(10, 15)
Init ==
  \E targets \in [1..NumApps -> TargetChoices(DepsPerApp)] :
    /\ services = MockServices(NumApps, DepsPerApp, 0)
    /\ dependencies = MockDependencies(NumApps, DepsPerApp, targets, 0)
    /\ analytics = <<>>
    /\ storage = EmptyStorage
    /\ clock = 0
    /\ dash = NewDashboard(0)
    /\ reader = [state |-> "idle", text |-> SyntaxErrorText]
    /\ alert = "none"
    /\ op = "constructor"
    /\ arg = "none"
    /\ ret = "void"
    /\ pre = [services |-> <<>>, dependencies |-> <<>>, analytics |-> <<>>]
    /\ emitted = <<"services", "dependencies">>
    /\ dashRuns = 0
    /\ graph = NewGraph
    /\ form = NoForm

Next ==
  \/ \E s \in NewServices(clock) : AddService(s)
  \/ \E s \in UpdatedServices(clock) : UpdateService(s)
  \/ \E id \in ServiceIds : DeleteService(id)
  \/ \E d \in NewDependencies(clock) : AddDependency(d)
  \/ \E d \in UpdatedDependencies(clock) : UpdateDependency(d)
  \/ \E id \in DependencyIds : DeleteDependency(id)
  \/ \E a \in AnalyticsInputs(clock) : UpdateUsageAnalytics(a)
  \/ \E text \in ImportTexts : ImportData(text)
  \/ ImportExported
  \/ \E status \in ServiceStatus : GetServicesByStatus(status)

Spec == Init /\ [][Next]_vars

(***************************************************************************)
(* DashboardComponent: lifecycle, import and filter handlers               *)
(***************************************************************************)
History == <<op, arg, ret, pre, emitted>>
Store == <<services, dependencies, analytics, storage>>

\* loadData(): one more subscription to services$ and to dependencies$, each
\* with takeUntil(destroy$); a BehaviorSubject hands the current value to the
\* new subscriber at once.  destroy$ is a plain Subject: after ngOnDestroy has
\* completed it, a later takeUntil(destroy$) receives no notification, so the
\* subscriptions made then stay live.
loadData(d, s, deps) ==
  DashboardOnDependencies(DashboardOnServices([d EXCEPT !.subs = @ + 1], s), deps)

\* the callbacks loadData() runs: the two new subscribers, once each
LoadDataCallbacks == Len(<<"services", "dependencies">>)

\* ngOnDestroy(): destroy$.next() ends every live takeUntil(destroy$)
ngOnDestroy(d) == [d EXCEPT !.life = "destroyed", !.subs = 0]

\* the component is created (field initialisers) and ngOnInit() runs loadData()
DashboardInit ==
  /\ dash.life = "none"
  /\ dash' = loadData([NewDashboard(clock) EXCEPT !.life = "alive"],
                      services, dependencies)
  /\ dashRuns' = LoadDataCallbacks
  /\ UNCHANGED <<Store, History, clock, reader, alert, graph, form>>

DashboardDestroy ==
  /\ dash.life = "alive"
  /\ dash' = ngOnDestroy(dash)
  /\ dashRuns' = 0
  /\ UNCHANGED <<Store, History, clock, reader, alert, graph, form>>

RefreshData ==
  /\ dash.life = "alive"
  /\ dash.subs < MaxSubs
  /\ dash' = loadData(dash, services, dependencies)
  /\ dashRuns' = LoadDataCallbacks
  /\ UNCHANGED <<Store, History, clock, reader, alert, graph, form>>

ReaderIdle == [state |-> "idle", text |-> SyntaxErrorText]

\* importData() up to reader.readAsText(file): the user picked a file
ImportClick(text) ==
  /\ dash.life = "alive"
  /\ reader.state = "idle"
  /\ reader' = [state |-> "loading", text |-> text]
  /\ UNCHANGED <<Store, History, clock, dash, alert, dashRuns, graph, form>>

\* an alert that reports success whatever importData returned
ImportAlert_AlwaysSuccess(success) == "Data imported successfully!"

ImportAlert(success) ==
  IF success THEN "Data imported successfully!"
  ELSE "Error importing data. Please check the file format."

\* reader.onload: runs whenever the read completes, whatever became of the view
ReaderOnload ==
  LET text == reader.text
      success == ~ImportThrows(text)
  IN /\ reader.state = "loading"
     /\ success => dash.subs < MaxSubs
     /\ importDataOp(text, NoStorage)
     /\ LET events == Emissions(emitted', services', dependencies', analytics')
            delivered == DashboardDeliver(dash, events)
        IN /\ dash' = IF success THEN loadData(delivered, services', dependencies')
                      ELSE delivered
           /\ dashRuns' = DashboardCallbacks(dash, events)
                          + (IF success THEN LoadDataCallbacks ELSE 0)
           /\ graph' = GraphDeliver([graph EXCEPT !.calls = <<>>], events)
     /\ alert' = ImportAlert(success)
     /\ reader' = ReaderIdle
     /\ UNCHANGED <<clock, form>>

\* a handler of the template that changes fields of the component only
DashboardHandler(d) ==
  /\ dash.life = "alive"
  /\ dash' = d
  /\ UNCHANGED <<Store, History, clock, reader, alert, dashRuns, graph, form>>

\* [(ngModel)]="searchQuery" (input)="onSearchChange()"
OnSearchChange(query) ==
  DashboardHandler(applyFilters([dash EXCEPT !.searchQuery = query], services))

OnServiceTypeChange(type) ==
  DashboardHandler(applyFilters([dash EXCEPT !.selectedServiceType = type], services))

OnStatusChange(status) ==
  DashboardHandler(applyFilters([dash EXCEPT !.selectedStatus = status], services))

\* the checkbox handlers: push when checked, filter out otherwise
Toggle(list, x, checked) ==
  IF checked THEN Append(list, x) ELSE filter(list, LAMBDA y : y # x)

OnServiceTypeFilterChange(type, checked) ==
  /\ checked => Len(dash.selectedServiceTypes) < MaxSelected
  /\ DashboardHandler(applyFilters(
       [dash EXCEPT !.selectedServiceTypes = Toggle(@, type, checked)], services))

OnStatusFilterChange(status, checked) ==
  /\ checked => Len(dash.selectedStatuses) < MaxSelected
  /\ DashboardHandler(applyFilters(
       [dash EXCEPT !.selectedStatuses = Toggle(@, status, checked)], services))

OnCriticalityFilterChange(level, checked) ==
  /\ checked => Len(dash.selectedCriticalityLevels) < MaxSelected
  /\ DashboardHandler(applyFilters(
       [dash EXCEPT !.selectedCriticalityLevels = Toggle(@, level, checked)],
       services))

\* removeFilter(filter), filter an entry of activeFilters
removeFilter(d, f) ==
  CASE f.type = "serviceType" ->
         [d EXCEPT !.selectedServiceTypes = filter(@, LAMBDA x : x # f.value)]
    [] f.type = "status" ->
         [d EXCEPT !.selectedStatuses = filter(@, LAMBDA x : x # f.value)]
    [] f.type = "criticality" ->
         [d EXCEPT !.selectedCriticalityLevels = filter(@, LAMBDA x : x # f.value)]
    [] f.type = "team" ->
         [d EXCEPT !.selectedTeams = filter(@, LAMBDA x : x # f.value)]
    [] f.type = "environment" ->
         [d EXCEPT !.selectedEnvironments = filter(@, LAMBDA x : x # f.value)]
    [] OTHER -> d

RemoveFilter(i) ==
  DashboardHandler(applyFilters(removeFilter(dash, dash.activeFilters[i]), services))

clearFilters(d) ==
  [d EXCEPT !.searchQuery = <<>>, !.selectedServiceType = "", !.selectedStatus = ""]

ClearFilters == DashboardHandler(applyFilters(clearFilters(dash), services))

clearAllFilters(d, now) ==
  [d EXCEPT !.searchQuery = <<>>, !.selectedServiceType = "", !.selectedStatus = "",
            !.selectedServiceTypes = <<>>, !.selectedStatuses = <<>>,
            !.selectedCriticalityLevels = <<>>, !.selectedTeams = <<>>,
            !.selectedEnvironments = <<>>,
            !.dateRange = [start |-> now - ThirtyDays, end |-> now]]

ClearAllFilters == DashboardHandler(applyFilters(clearAllFilters(dash, clock), services))

\* a day passes
Tick ==
  /\ clock < MaxClock
  /\ clock' = clock + 1
  /\ UNCHANGED <<Store, History, dash, reader, alert, dashRuns, graph, form>>

(***************************************************************************)
(* The dashboard's life over the store: creation, refresh, file import,    *)
(* teardown, with the store changing underneath                            *)
(***************************************************************************)
FullFile ==
  ObjectText(Array(FileServices), Array(FileDependencies), Array(FileAnalytics))

UIImportTexts == {SyntaxErrorText, NullText, FullFile}

NextUI ==
  \/ DashboardInit
  \/ DashboardDestroy
  \/ RefreshData
  \/ \E text \in UIImportTexts : ImportClick(text)
  \/ ReaderOnload
  \/ AddService(ServiceA(clock))
  \/ DeleteService("app-1")

SpecUI == Init /\ [][NextUI]_vars

(***************************************************************************)
(* The dashboard's filters over the store                                  *)
(***************************************************************************)
str_SUPPORT == <<83,85,80,80,79,82,84>>   \* "SUPPORT"
str_blank == <<32>>                        \* " "

SearchQueries == {<<>>, str_blank, str_SUPPORT}

NextFilter ==
  \/ DashboardInit
  \/ Tick
  \/ AddService(ServiceA(clock))
  \/ DeleteService("svc-1")
  \/ \E q \in SearchQueries : OnSearchChange(q)
  \/ \E type \in {"", "MICROSERVICE"} : OnServiceTypeChange(type)
  \/ \E status \in {"", "ACTIVE"} : OnStatusChange(status)
  \/ \E checked \in BOOLEAN : OnServiceTypeFilterChange("API", checked)
  \/ \E checked \in BOOLEAN : OnStatusFilterChange("ACTIVE", checked)
  \/ \E checked \in BOOLEAN : OnCriticalityFilterChange("MEDIUM", checked)
  \/ \E i \in 1..Len(dash.activeFilters) : RemoveFilter(i)
  \/ ClearFilters
  \/ ClearAllFilters

SpecFilter == Init /\ [][NextFilter]_vars

(***************************************************************************)
(* DependencyGraphComponent: lifecycle and filter handlers over the store  *)
(***************************************************************************)
GraphFrame ==
  UNCHANGED <<Store, History, clock, dash, reader, alert, dashRuns, form>>

\* the component is created: ngOnInit() runs loadData() while this.cy is not
\* set, then ngAfterViewInit() runs initializeGraph()
GraphInit ==
  /\ graph.life = "none"
  /\ graph' = initializeGraph(
                Graph_loadData([NewGraph EXCEPT !.life = "alive"],
                               services, dependencies))
  /\ GraphFrame

GraphDestroy ==
  /\ graph.life = "alive"
  /\ graph' = Graph_ngOnDestroy(graph)
  /\ GraphFrame

\* the filter controls are set and applyFilters() runs
GraphApplyFilters(byType, byStatus, byCriticality, query) ==
  /\ graph.life = "alive"
  /\ graph' = Graph_applyFilters(
                [graph EXCEPT !.filterByType = byType,
                              !.filterByStatus = byStatus,
                              !.filterByCriticality = byCriticality,
                              !.searchQuery = query])
  /\ GraphFrame

GraphClearFilters ==
  /\ graph.life = "alive"
  /\ graph' = Graph_clearFilters(graph)
  /\ GraphFrame

str_micro == <<109,105,99,114,111>>   \* "micro"

\* settings of the filter controls: none but a blank search, a type, a search
\* that only a node's type answers, and status with criticality and search
GraphFilter(byType, byStatus, byCriticality, query) ==
  [byType |-> byType, byStatus |-> byStatus, byCriticality |-> byCriticality,
   query |-> query]

GraphFilters ==
  {GraphFilter(<<>>, <<>>, <<>>, str_blank),
   GraphFilter(<<"MONOLITH">>, <<>>, <<>>, <<>>),
   GraphFilter(<<>>, <<>>, <<>>, str_micro),
   GraphFilter(<<>>, <<"ACTIVE">>, <<"MEDIUM">>, str_micro)}

NextGraph ==
  \/ GraphInit
  \/ GraphDestroy
  \/ \E f \in GraphFilters :
       GraphApplyFilters(f.byType, f.byStatus, f.byCriticality, f.query)
  \/ GraphClearFilters
  \/ AddService(ServiceGhost(clock))
  \/ DeleteService("svc-1")
  \/ AddDependency(DependencyA(clock))
  \/ DeleteDependency("dep-app-1-0")
  \/ ImportData(FullFile)

SpecGraph == Init /\ [][NextGraph]_vars

(***************************************************************************)
(* ServiceFormComponent: the routes service/new and service/:id/edit       *)
(***************************************************************************)
FormFrame ==
  UNCHANGED <<Store, History, clock, dash, reader, alert, dashRuns, graph>>

\* getServiceById(id): the first service with the id, if any
HasService(id) == \E i \in 1..Len(services) : services[i].id = id
getServiceById(id) == services[findIndex(services, LAMBDA x : x.id = id)]

\* the component is created for a route; id is "" on service/new.  ngOnInit()
\* takes the id from the route and, in edit mode, loads the service
FormOpen(id) ==
  /\ form.life # "open"
  /\ form' = [NoForm EXCEPT
                !.life = "open", !.serviceId = id, !.isEditMode = (id # ""),
                !.value = IF id # "" /\ HasService(id)
                          THEN patchValue(createForm, getServiceById(id))
                          ELSE createForm]
  /\ FormFrame

\* the user changes one control
FormInput(control, v) ==
  /\ form.life = "open"
  /\ form' = [form EXCEPT !.value[control] = v, !.last = "input"]
  /\ FormFrame

\* generateId(): 'service_' and random characters
GeneratedIds == {"service_k3x9"}

Navigated(f, handler) ==
  [f EXCEPT !.life = "closed", !.route = "/dashboard", !.last = handler]

\* onSubmit()
FormSubmit ==
  /\ form.life = "open"
  /\ IF valid(form.value)
     THEN /\ \E id \in (IF form.serviceId # "" THEN {form.serviceId}
                        ELSE GeneratedIds) :
               IF form.isEditMode
               THEN updateServiceOp(SubmittedService(form, id, clock), NoStorage)
               ELSE addServiceOp(SubmittedService(form, id, clock))
          /\ NoStorage
          /\ Notify
          /\ form' = Navigated(form, "onSubmit")
     ELSE /\ form' = [markFormGroupTouched(form) EXCEPT !.last = "onSubmit"]
          /\ Returns("onSubmit", "none", "void", <<>>)
          /\ UNCHANGED <<Store, dash, dashRuns, graph>>
  /\ UNCHANGED <<clock, reader, alert>>

\* onCancel()
FormCancel ==
  /\ form.life = "open"
  /\ form' = Navigated([form EXCEPT !.value = createForm, !.touched = {}], "onCancel")
  /\ FormFrame

str_A == <<65>>                                        \* "A"
str_ftp == <<102,116,112,58,47,47,120>>               \* "ftp://x"
str_httpx == <<104,116,116,112,58,47,47,120>>         \* "http://x"
str_0 == <<48>>                                        \* "0"
str_65536 == <<54,53,53,51,54>>                        \* "65536"

\* what the user types or picks, control by control
FormInputs ==
  ({"name"} \X {<<>>, str_A, str_ApiGateway})
  \cup ({"type"} \X {"", "API"})
  \cup ({"url"} \X {str_ftp, str_httpx})
  \cup ({"port"} \X {str_0, str_65536})
  \cup ({"environment"} \X {""})
  \cup ({"status"} \X {""})

\* a service is deleted on the dashboard before the form is opened
NextForm ==
  \/ \E id \in {"", "app-1", "ghost"} : FormOpen(id)
  \/ \E in \in FormInputs : FormInput(in[1], in[2])
  \/ FormSubmit
  \/ FormCancel
  \/ form.life = "none" /\ DeleteService("svc-1")

SpecForm == Init /\ [][NextForm]_vars

(***************************************************************************)
(* Properties of the store                                                 *)
(***************************************************************************)
\* the k-th smallest index of the index set idx
KthIndex(idx, k) == CHOOSE i \in idx : Cardinality({j \in idx : j <= i}) = k

\* result holds exactly the elements of list at the indices idx, in list order
IsSelection(result, list, idx) ==
  /\ Len(result) = Cardinality(idx)
  /\ \A k \in 1..Len(result) : result[k] = list[KthIndex(idx, k)]

\* C1: getServicesByStatus(X) returns exactly the stored services whose status
\* is X: only those, all of those, in store order.
C1_ByStatusExact ==
  op = "getServicesByStatus" =>
    IsSelection(ret, services,
                {i \in 1..Len(services) : services[i].status = arg})

\* C1 witness: a query that keeps two services and drops another
C1_Witness ==
  /\ op = "getServicesByStatus"
  /\ Len(ret) >= 2
  /\ Len(ret) < Len(services)

IsRoundTrip ==
  /\ op = "importData"
  /\ arg.kind = "object"
  /\ arg.exportDate.kind = "string"
  /\ arg = exportData(pre.services, pre.dependencies, pre.analytics,
                      arg.exportDate.v[1])

\* C3: importData(exportData()) returns true and leaves the three lists equal,
\* as JSON values and in order, to what they were before the call.
C3_RoundTrip ==
  IsRoundTrip =>
    /\ ret = TRUE
    /\ ServicesToJSON(services) = ServicesToJSON(pre.services)
    /\ DependenciesToJSON(dependencies) = DependenciesToJSON(pre.dependencies)
    /\ AnalyticsListToJSON(analytics) = AnalyticsListToJSON(pre.analytics)

\* C3 witness: a round trip of a store that holds Date objects, a dependency
\* and an empty analytics list
C3_Witness ==
  /\ IsRoundTrip
  /\ services # pre.services
  /\ pre.dependencies # <<>>
  /\ pre.analytics = <<>>

\* C4 as claimed: after a successful import each list equals the list of the
\* document, and is empty when the document carries none.
C4_ImportReplacesAll ==
  (op = "importData" /\ ret = TRUE) =>
    /\ services = (IF arg.services.kind = "array" THEN arg.services.v ELSE <<>>)
    /\ dependencies =
         (IF arg.dependencies.kind = "array" THEN arg.dependencies.v ELSE <<>>)
    /\ analytics = (IF arg.analytics.kind = "array" THEN arg.analytics.v ELSE <<>>)

\* C4 amended: after a successful import each list for which the document
\* carries an array equals that array, and every other list is as it was
\* before the call.
C4_ImportReplacesPresent ==
  (op = "importData" /\ ret = TRUE) =>
    /\ services =
         (IF arg.services.kind = "array" THEN arg.services.v ELSE pre.services)
    /\ dependencies =
         (IF arg.dependencies.kind = "array"
          THEN arg.dependencies.v ELSE pre.dependencies)
    /\ analytics =
         (IF arg.analytics.kind = "array" THEN arg.analytics.v ELSE pre.analytics)

\* C4 witness: a successful import of a document with empty arrays into a
\* store whose three lists were not empty
C4_Witness ==
  /\ op = "importData"
  /\ ret = TRUE
  /\ arg.services = Array(<<>>)
  /\ pre.services # <<>> /\ pre.dependencies # <<>> /\ pre.analytics # <<>>
  /\ services = <<>>

\* C5: after deleteService(id) no service has that id and no dependency has it
\* as source or target; every other service and dependency is still there,
\* unchanged and in the same order.
C5_DeleteService ==
  op = "deleteService" =>
    /\ \A i \in 1..Len(services) : services[i].id # arg
    /\ \A i \in 1..Len(dependencies) :
         dependencies[i].sourceServiceId # arg /\ dependencies[i].targetServiceId # arg
    /\ IsSelection(services, pre.services,
                   {i \in 1..Len(pre.services) : pre.services[i].id # arg})
    /\ IsSelection(dependencies, pre.dependencies,
                   {i \in 1..Len(pre.dependencies) :
                      /\ pre.dependencies[i].sourceServiceId # arg
                      /\ pre.dependencies[i].targetServiceId # arg})
    /\ analytics = pre.analytics

\* C5 witness: the deleted service existed, a dependency pointed at it, and
\* other services remain
C5_Witness ==
  /\ op = "deleteService"
  /\ \E i \in 1..Len(pre.services) : pre.services[i].id = arg
  /\ \E i \in 1..Len(pre.dependencies) :
       /\ pre.dependencies[i].targetServiceId = arg
       /\ pre.dependencies[i].sourceServiceId # arg
  /\ services # <<>>

\* list after replacing, at the first position whose id is x.id, the record by x
IsReplaceOf(after, before, x) ==
  LET hits == {i \in 1..Len(before) : before[i].id = x.id}
  IN IF hits = {}
     THEN after = before
     ELSE /\ Len(after) = Len(before)
          /\ \A i \in 1..Len(before) :
               after[i] = (IF i \in hits /\ \A j \in hits : i <= j THEN x ELSE before[i])

\* C6: updateService and updateDependency replace the first record with the
\* argument's id and nothing else; with no such record the list is unchanged,
\* nothing is emitted and no record is created.
C6_UpdateReplaces ==
  /\ op = "updateService" =>
       /\ IsReplaceOf(services, pre.services, arg)
       /\ dependencies = pre.dependencies /\ analytics = pre.analytics
       /\ emitted = (IF \E i \in 1..Len(pre.services) : pre.services[i].id = arg.id
                     THEN <<"services">> ELSE <<>>)
  /\ op = "updateDependency" =>
       /\ IsReplaceOf(dependencies, pre.dependencies, arg)
       /\ services = pre.services /\ analytics = pre.analytics
       /\ emitted = (IF \E i \in 1..Len(pre.dependencies) :
                          pre.dependencies[i].id = arg.id
                     THEN <<"dependencies">> ELSE <<>>)

\* C6 witness: an update of a list that holds the id twice, first among them
\* at position 1, which changed the list
C6_Witness ==
  /\ op = "updateService"
  /\ Cardinality({i \in 1..Len(pre.services) : pre.services[i].id = arg.id}) = 2
  /\ services # pre.services
  /\ services[Len(services)] = pre.services[Len(services)]

\* C15: after any sequence of public store operations from the initial
\* dataset, every dependency's sourceServiceId and targetServiceId is the id of
\* a service currently in the store.
C15_ReferentialLinkage ==
  \A i \in 1..Len(dependencies) :
    /\ \E j \in 1..Len(services) : services[j].id = dependencies[i].sourceServiceId
    /\ \E j \in 1..Len(services) : services[j].id = dependencies[i].targetServiceId

(***************************************************************************)
(* Properties of the dashboard                                             *)
(***************************************************************************)
\* C2: importData with text that is not parseable JSON returns false, leaves
\* the three lists unchanged and emits nothing; the dashboard shows the error
\* alert, not the success alert.
C2_MalformedImport ==
  (op = "importData" /\ arg.kind = "syntaxError") =>
    /\ ret = FALSE
    /\ Stored = pre
    /\ emitted = <<>>
    /\ alert = "Error importing data. Please check the file format."

\* C2 witness: a malformed file was read while the dashboard was subscribed to
\* a store that holds data
C2_Witness ==
  /\ op = "importData"
  /\ arg.kind = "syntaxError"
  /\ reader.state = "idle"
  /\ alert # "none"
  /\ dash.subs > 0
  /\ services # <<>>

\* C7: after ngOnDestroy no subscription of the dashboard is live and no
\* subscriber callback of the destroyed dashboard runs.
C7_NoSubscriptionAfterDestroy ==
  dash.life = "destroyed" => (dash.subs = 0 /\ dashRuns = 0)

\* the criteria of the dashboard, all at once
SearchHit(s, query) ==
  \/ includes(toLowerCase(s.name), toLowerCase(query))
  \/ includes(toLowerCase(s.description), toLowerCase(query))
  \/ \E i \in 1..Len(s.tags) : includes(toLowerCase(s.tags[i]), toLowerCase(query))

Range(list) == {list[i] : i \in 1..Len(list)}

Satisfies(d, s) ==
  /\ trim(d.searchQuery) # <<>> => SearchHit(s, d.searchQuery)
  /\ d.selectedServiceType # "" => s.type = d.selectedServiceType
  /\ d.selectedStatus # "" => s.status = d.selectedStatus
  /\ d.selectedServiceTypes # <<>> => s.type \in Range(d.selectedServiceTypes)
  /\ d.selectedStatuses # <<>> => s.status \in Range(d.selectedStatuses)
  /\ d.selectedCriticalityLevels # <<>> =>
       s.criticality \in Range(d.selectedCriticalityLevels)
  /\ d.selectedTeams # <<>> => s.team \in Range(d.selectedTeams) \ {""}
  /\ d.selectedEnvironments # <<>> => s.environment \in Range(d.selectedEnvironments)
  /\ d.dateRange.start <= getTime(s.lastSeen)
  /\ getTime(s.lastSeen) <= d.dateRange.end

\* C10: while the dashboard is up, after every store emission and every filter
\* handler, filteredServices is exactly the stored services that satisfy every
\* active criterion at once, in store order.
C10_FilteredExact ==
  dash.life = "alive" =>
    IsSelection(dash.filteredServices, services,
                {i \in 1..Len(services) : Satisfies(dash, services[i])})

\* C10 witness: a search and a status checkbox are active and keep some of the
\* services while a service added after the view was created is left out
C10_Witness ==
  /\ dash.life = "alive"
  /\ trim(dash.searchQuery) # <<>>
  /\ dash.selectedStatuses # <<>>
  /\ dash.filteredServices # <<>>
  /\ \E i \in 1..Len(services) : getTime(services[i].lastSeen) > dash.dateRange.end
  /\ Len(dash.filteredServices) + 1 < Len(services)

\* C11: after clearFilters() has returned, whatever filters were set before,
\* filteredServices is the full list of the store's services and activeFilters
\* is empty.
C11_ClearFiltersResets ==
  [][ClearFilters =>
       (dash'.filteredServices = services' /\ dash'.activeFilters = <<>>)]_vars

(***************************************************************************)
(* DependencyService, the variant that keeps a copy in localStorage        *)
(* (dependency-graph.component.ts, second half).  Its operations change    *)
(* the lists as the in-memory variant's do and then saveToLocalStorage().  *)
(* An entry of localStorage is Absent (getItem gives null) or the array    *)
(* that its JSON text denotes.                                             *)
(***************************************************************************)
\* the character codes of the texts of the sample services, in the order
\* name, description, tags
sampleTexts ==
  [
 sys |->
    [name |->   \* "Payment Orchestrator"
      <<80,97,121,109,101,110,116,32,79,114,99,104,101,115,116,114,97,116,111,
        114>>,
     description |->   \* "Subject system whose interactions are being mapped"
      <<83,117,98,106,101,99,116,32,115,121,115,116,101,109,32,119,104,111,
        115,101,32,105,110,116,101,114,97,99,116,105,111,110,115,32,97,114,
        101,32,98,101,105,110,103,32,109,97,112,112,101,100>>,
     tags |->   \* "payments", "core", "subject-system"
       <<<<112,97,121,109,101,110,116,115>>,
         <<99,111,114,101>>,
         <<115,117,98,106,101,99,116,45,115,121,115,116,101,109>>>>],
 itp |->
    [name |->   \* "HP NonStop ITP"
      <<72,80,32,78,111,110,83,116,111,112,32,73,84,80>>,
     description |->   \* "Transaction processing on HP NonStop ITP"
      <<84,114,97,110,115,97,99,116,105,111,110,32,112,114,111,99,101,115,115,
        105,110,103,32,111,110,32,72,80,32,78,111,110,83,116,111,112,32,73,84,
        80>>,
     tags |->   \* "nonstop", "itp", "transaction"
       <<<<110,111,110,115,116,111,112>>,
         <<105,116,112>>,
         <<116,114,97,110,115,97,99,116,105,111,110>>>>],
 db_oracle |->
    [name |->   \* "Core Banking DB (Oracle)"
      <<67,111,114,101,32,66,97,110,107,105,110,103,32,68,66,32,40,79,114,97,
        99,108,101,41>>,
     description |->   \* "Oracle database for core banking"
      <<79,114,97,99,108,101,32,100,97,116,97,98,97,115,101,32,102,111,114,32,
        99,111,114,101,32,98,97,110,107,105,110,103>>,
     tags |->   \* "oracle", "core-banking"
       <<<<111,114,97,99,108,101>>,
         <<99,111,114,101,45,98,97,110,107,105,110,103>>>>],
 db_pg |->
    [name |->   \* "Customer DB (PostgreSQL)"
      <<67,117,115,116,111,109,101,114,32,68,66,32,40,80,111,115,116,103,114,
        101,83,81,76,41>>,
     description |->   \* "Customer data store"
      <<67,117,115,116,111,109,101,114,32,100,97,116,97,32,115,116,111,114,
        101>>,
     tags |->   \* "postgresql", "customers"
       <<<<112,111,115,116,103,114,101,115,113,108>>,
         <<99,117,115,116,111,109,101,114,115>>>>],
 db_db2 |->
    [name |->   \* "Ledger DB (DB2)"
      <<76,101,100,103,101,114,32,68,66,32,40,68,66,50,41>>,
     description |->   \* "Financial ledger"
      <<70,105,110,97,110,99,105,97,108,32,108,101,100,103,101,114>>,
     tags |->   \* "db2", "ledger"
       <<<<100,98,50>>,
         <<108,101,100,103,101,114>>>>],
 mq_ibm |->
    [name |->   \* "Payments MQ (IBM MQ)"
      <<80,97,121,109,101,110,116,115,32,77,81,32,40,73,66,77,32,77,81,41>>,
     description |->   \* "Synchronous/async payments queue"
      <<83,121,110,99,104,114,111,110,111,117,115,47,97,115,121,110,99,32,112,
        97,121,109,101,110,116,115,32,113,117,101,117,101>>,
     tags |->   \* "ibm-mq", "payments"
       <<<<105,98,109,45,109,113>>,
         <<112,97,121,109,101,110,116,115>>>>],
 mq_kafka |->
    [name |->   \* "Events Kafka"
      <<69,118,101,110,116,115,32,75,97,102,107,97>>,
     description |->   \* "Event streaming for notifications & audit"
      <<69,118,101,110,116,32,115,116,114,101,97,109,105,110,103,32,102,111,
        114,32,110,111,116,105,102,105,99,97,116,105,111,110,115,32,38,32,97,
        117,100,105,116>>,
     tags |->   \* "kafka", "events"
       <<<<107,97,102,107,97>>,
         <<101,118,101,110,116,115>>>>]]

SampleService(id, key, type, team, criticality, now) ==
  Service(id, sampleTexts[key].name, type, sampleTexts[key].description,
          "production", team, Date(now), "ACTIVE", sampleTexts[key].tags,
          criticality)

sampleServices(now) ==
  <<SampleService("sys", "sys", "MICROSERVICE", "Core Payments", "CRITICAL", now),
    SampleService("itp", "itp", "EXTERNAL_SERVICE", "Mainframe Ops", "CRITICAL", now),
    SampleService("db-oracle", "db_oracle", "DATABASE", "DBA", "CRITICAL", now),
    SampleService("db-pg", "db_pg", "DATABASE", "DBA", "HIGH", now),
    SampleService("db-db2", "db_db2", "DATABASE", "Finance IT", "CRITICAL", now),
    SampleService("mq-ibm", "mq_ibm", "QUEUE", "Messaging", "HIGH", now),
    SampleService("mq-kafka", "mq_kafka", "MESSAGE_BROKER", "Messaging", "MEDIUM", now)>>

sampleDependencies(now) ==
  <<Dependency("dep-itp", "sys", "itp", "API_CALL", Date(now)),
    Dependency("dep-oracle", "sys", "db-oracle", "DATABASE_QUERY", Date(now)),
    Dependency("dep-pg", "sys", "db-pg", "DATABASE_QUERY", Date(now)),
    Dependency("dep-db2", "sys", "db-db2", "DATABASE_QUERY", Date(now)),
    Dependency("dep-mq", "sys", "mq-ibm", "MESSAGE_QUEUE", Date(now)),
    Dependency("dep-kafka", "sys", "mq-kafka", "EVENT_STREAM", Date(now))>>

\* the three entries that saveToLocalStorage() writes for the given lists
Saved(s, d, a) ==
  [services |-> Array(ServicesToJSON(s)),
   dependencies |-> Array(DependenciesToJSON(d)),
   analytics |-> Array(AnalyticsListToJSON(a))]

\* a save that writes the services entry only
saveToLocalStorage_ServicesOnly ==
  storage' = [storage EXCEPT !.services = Array(ServicesToJSON(services'))]

saveToLocalStorage == storage' = Saved(services', dependencies', analytics')

\* if (entry) subject.next(JSON.parse(entry)): a stored text, "[]" too, is truthy
loadFromLocalStorage(st) ==
  [services |-> IF st.services.kind = "array" THEN st.services.v ELSE <<>>,
   dependencies |-> IF st.dependencies.kind = "array" THEN st.dependencies.v ELSE <<>>,
   analytics |-> IF st.analytics.kind = "array" THEN st.analytics.v ELSE <<>>]

\* the subjects loadFromLocalStorage() calls next() on
LoadSubjects(st) ==
  (IF st.services.kind = "array" THEN <<"services">> ELSE <<>>)
  \o (IF st.dependencies.kind = "array" THEN <<"dependencies">> ELSE <<>>)
  \o (IF st.analytics.kind = "array" THEN <<"analytics">> ELSE <<>>)

\* the lists after loadSampleData(): analytics are left as loaded
loadSampleData(loaded, now) ==
  [services |-> sampleServices(now),
   dependencies |-> sampleDependencies(now),
   analytics |-> loaded.analytics]

\* the lists a new instance holds once its constructor has run over storage st
loadInitialData(st, now) ==
  LET loaded == loadFromLocalStorage(st)
  IN IF Len(loaded.services) = 0 THEN loadSampleData(loaded, now) ELSE loaded

\* localStorage once that constructor has run: loadSampleData() saves
StorageAfterLoad(st, now) ==
  LET loaded == loadFromLocalStorage(st)
      lists == loadInitialData(st, now)
  IN IF Len(loaded.services) = 0
     THEN Saved(lists.services, lists.dependencies, lists.analytics)
     ELSE st

SubjectsAfterLoad(st) ==
  LoadSubjects(st)
  \o (IF Len(loadFromLocalStorage(st).services) = 0
      THEN <<"services", "dependencies">> ELSE <<>>)

LS_AddService(service) ==
  addServiceOp(service) /\ saveToLocalStorage /\ Notify /\ Idle

LS_UpdateService(service) ==
  updateServiceOp(service, saveToLocalStorage) /\ Notify /\ Idle

LS_DeleteService(serviceId) ==
  deleteServiceOp(serviceId) /\ saveToLocalStorage /\ Notify /\ Idle

LS_AddDependency(dependency) ==
  addDependencyOp(dependency) /\ saveToLocalStorage /\ Notify /\ Idle

LS_UpdateDependency(dependency) ==
  updateDependencyOp(dependency, saveToLocalStorage) /\ Notify /\ Idle

LS_DeleteDependency(dependencyId) ==
  deleteDependencyOp(dependencyId) /\ saveToLocalStorage /\ Notify /\ Idle

LS_UpdateUsageAnalytics(a) ==
  updateUsageAnalyticsOp(a) /\ saveToLocalStorage /\ Notify /\ Idle

LS_ImportData(text) ==
  importDataOp(text, saveToLocalStorage) /\ Notify /\ Idle

\* the page is loaded again: a new DependencyService() over the storage that
\* the previous instance left; a new instance has no subscriber yet
Reload ==
  /\ services' = loadInitialData(storage, clock).services
  /\ dependencies' = loadInitialData(storage, clock).dependencies
  /\ analytics' = loadInitialData(storage, clock).analytics
  /\ storage' = StorageAfterLoad(storage, clock)
  /\ Returns("reload", "none", "void", SubjectsAfterLoad(storage))
  /\ dash' = NewDashboard(clock)
  /\ dashRuns' = 0
  /\ reader' = ReaderIdle
  /\ alert' = "none"
  /\ graph' = NewGraph
  /\ form' = NoForm
  /\ UNCHANGED clock

\* inputs: a service with the id of a sample service, dependencies with the
\* id of a sample dependency and with a new id
str_ItpGateway == <<73,84,80,32,71,97,116,101,119,97,121>>   \* "ITP Gateway"

ServiceItp(now) ==
  FormService("itp", str_ItpGateway, "API", "Mainframe Ops", "MAINTENANCE", <<>>, now)

LS_UpdatedServices(now) == {ServiceItp(now)}
LS_ServiceIds == {"sys", "itp", "db-oracle", "db-pg", "db-db2", "mq-ibm", "mq-kafka"}

DependencyKafka(now) == Dependency("dep-kafka", "itp", "mq-kafka", "WEBHOOK", Date(now))
DependencyNew(now) == Dependency("dep-new", "mq-kafka", "ghost", "GRPC_CALL", Date(now))

LS_NewDependencies(now) == {DependencyNew(now)}
LS_UpdatedDependencies(now) == {DependencyKafka(now)}
LS_DependencyIds == {"dep-itp"}

LS_AnalyticsInputs(now) == {UsageAnalytics("sys", 10, Date(now))}

LS_ImportTexts ==
  {SyntaxErrorText,
   ObjectText(Null, Array(FileDependencies), Absent)}

\* the first visit: new DependencyService() over an empty localStorage
InitLS ==
  /\ services = loadInitialData(EmptyStorage, 0).services
  /\ dependencies = loadInitialData(EmptyStorage, 0).dependencies
  /\ analytics = loadInitialData(EmptyStorage, 0).analytics
  /\ storage = StorageAfterLoad(EmptyStorage, 0)
  /\ clock = 0
  /\ dash = NewDashboard(0)
  /\ reader = [state |-> "idle", text |-> SyntaxErrorText]
  /\ alert = "none"
  /\ op = "constructor"
  /\ arg = "none"
  /\ ret = "void"
  /\ pre = [services |-> <<>>, dependencies |-> <<>>, analytics |-> <<>>]
  /\ emitted = SubjectsAfterLoad(EmptyStorage)
  /\ dashRuns = 0
  /\ graph = NewGraph
  /\ form = NoForm

NextLS ==
  \/ \E s \in NewServices(clock) : LS_AddService(s)
  \/ \E s \in LS_UpdatedServices(clock) : LS_UpdateService(s)
  \/ \E id \in LS_ServiceIds : LS_DeleteService(id)
  \/ \E d \in LS_NewDependencies(clock) : LS_AddDependency(d)
  \/ \E d \in LS_UpdatedDependencies(clock) : LS_UpdateDependency(d)
  \/ \E id \in LS_DependencyIds : LS_DeleteDependency(id)
  \/ \E a \in LS_AnalyticsInputs(clock) : LS_UpdateUsageAnalytics(a)
  \/ \E text \in LS_ImportTexts : LS_ImportData(text)
  \/ Reload

SpecLS == InitLS /\ [][NextLS]_vars

(***************************************************************************)
(* Properties of the localStorage variant                                  *)
(***************************************************************************)
Mutators ==
  {"addService", "updateService", "deleteService", "addDependency",
   "updateDependency", "deleteDependency", "updateUsageAnalytics", "importData"}

\* C8: after every public mutating operation of the localStorage variant has
\* returned, the three localStorage entries hold exactly the JSON of the
\* in-memory services, dependencies and analytics lists.
C8_StorageMirrorsMemory ==
  op \in Mutators => storage = Saved(services, dependencies, analytics)

\* an update has replaced a stored service while dependencies and analytics
\* are stored too, and the entries carry the new lists
C8_Witness ==
  /\ op = "updateService"
  /\ services # pre.services
  /\ dependencies # <<>>
  /\ analytics # <<>>
  /\ storage.services = Array(ServicesToJSON(services))
  /\ storage.analytics = Array(AnalyticsListToJSON(analytics))

\* C9: a new instance constructed over the storage left by the previous
\* instance starts with exactly the lists the previous instance held after its
\* last operation (as JSON writes them), whatever the previous instance did.
C9_ReloadRestores ==
  op = "reload" =>
    /\ ServicesToJSON(services) = ServicesToJSON(pre.services)
    /\ DependenciesToJSON(dependencies) = DependenciesToJSON(pre.dependencies)
    /\ AnalyticsListToJSON(analytics) = AnalyticsListToJSON(pre.analytics)

(***************************************************************************)
(* Properties of the graph view                                            *)
(***************************************************************************)
Displayed(element) == element.display = "element"

\* the node's lower-cased name or type contains the lower-cased query
SearchMatches(n, query) ==
  \/ includes(toLowerCase(n.name), toLowerCase(query))
  \/ includes(toLowerCase(ServiceTypeChars(n.type)), toLowerCase(query))

\* the node passes every list filter that is not empty
PassesLists(g, n) ==
  /\ g.filterByType # <<>> => \E i \in 1..Len(g.filterByType) : g.filterByType[i] = n.type
  /\ g.filterByStatus # <<>> =>
       \E i \in 1..Len(g.filterByStatus) : g.filterByStatus[i] = n.status
  /\ g.filterByCriticality # <<>> =>
       \E i \in 1..Len(g.filterByCriticality) : g.filterByCriticality[i] = n.criticality

AfterApplyFilters == graph.life = "alive" /\ graph.last = "applyFilters"

C13_ClearShowsAll ==
  (graph.life = "alive" /\ graph.last = "clearFilters") =>
    /\ graph.filterByType = <<>>
    /\ graph.filterByStatus = <<>>
    /\ graph.filterByCriticality = <<>>
    /\ graph.searchQuery = <<>>
    /\ \A i \in 1..Len(graph.cy.nodes) : Displayed(graph.cy.nodes[i])
    /\ \A i \in 1..Len(graph.cy.edges) : Displayed(graph.cy.edges[i])

\* clearFilters() has run on a graph that has nodes and edges
C13_Witness ==
  /\ graph.life = "alive"
  /\ graph.last = "clearFilters"
  /\ Len(graph.cy.nodes) > 1
  /\ graph.cy.edges # <<>>

\* the ids of a list of records, as a set
IdsOf(list) == {list[i].id : i \in 1..Len(list)}

\* C16: in every updateGraph() call of the last store operation, each edge
\* handed to cy.add() has its source and its target among the ids of the nodes
\* handed over in the same call.
C16_EdgesAmongNodes ==
  \A c \in 1..Len(graph.calls) :
    \A e \in 1..Len(graph.calls[c].edges) :
      /\ graph.calls[c].edges[e].source \in IdsOf(graph.calls[c].nodes)
      /\ graph.calls[c].edges[e].target \in IdsOf(graph.calls[c].nodes)

\* C17: while the graph is initialised, after every store operation the graph
\* node ids are the service ids, the graph edge ids are the dependency ids, and
\* totalNodes and totalEdges are the numbers of services and dependencies.
C17_GraphMirrorsStore ==
  graph.life = "alive" =>
    /\ {graph.cy.nodes[i].data.id : i \in 1..Len(graph.cy.nodes)} = IdsOf(services)
    /\ {graph.cy.edges[i].data.id : i \in 1..Len(graph.cy.edges)} = IdsOf(dependencies)
    /\ graph.totalNodes = Len(services)
    /\ graph.totalEdges = Len(dependencies)

\* C18: while a list filter or a non-blank search query of the graph is set
\* (it is applied when it is set), no displayed node fails it, whichever
\* operation ran last, a store emission that rebuilt the graph included.
C18_FiltersStayInForce ==
  graph.life = "alive" =>
    \A i \in 1..Len(graph.cy.nodes) :
      Displayed(graph.cy.nodes[i]) =>
        /\ PassesLists(graph, graph.cy.nodes[i].data)
        /\ trim(graph.searchQuery) # <<>> =>
             SearchMatches(graph.cy.nodes[i].data, graph.searchQuery)

(***************************************************************************)
(* Properties of the service form                                          *)
(***************************************************************************)
\* a URL that is given and does not begin with http:// or https:// followed by
\* at least one character
BadUrl(url) ==
  /\ url # <<>>
  /\ ~(Len(url) > 7 /\ SubSeq(url, 1, 7) = str_http)
  /\ ~(Len(url) > 8 /\ SubSeq(url, 1, 8) = str_https)

\* a port that is a number outside 1..65535
BadPort(port) ==
  /\ port # <<>>
  /\ ~parseFloat(port).nan
  /\ parseFloat(port).n \notin 1..65535

Invalid(value) ==
  \/ value.name = <<>> \/ value.type = "" \/ value.environment = ""
  \/ value.status = ""
  \/ Len(value.name) < 2
  \/ BadUrl(value.url)
  \/ BadPort(value.port)

\* C14: submitting the service form while it is invalid leaves the store
\* unchanged (no operation of the store is called, nothing is emitted), does
\* not navigate away and marks every control as touched.
C14_InvalidSubmit ==
  (form.last = "onSubmit" /\ Invalid(form.value)) =>
    /\ op = "onSubmit"
    /\ Stored = pre
    /\ emitted = <<>>
    /\ form.life = "open"
    /\ form.route = ""
    /\ form.touched = FormControls

\* a form with a name of one character, otherwise valid, was submitted
C14_Witness ==
  /\ form.last = "onSubmit"
  /\ Len(form.value.name) = 1
  /\ form.value.type # ""
  /\ ~BadUrl(form.value.url)
  /\ ~BadPort(form.value.port)
  /\ form.touched = FormControls

====
